---- MODULE Spec2Model ----
(***************************************************************************)
(* BurgerBrows: a wallet (wallet.py) over a JSON-RPC node, the contract    *)
(* helpers (contracts.py, rewards.py, reward_system.py) and the wallet     *)
(* flows of the browser (browser.py): deposit, reward claim, faucet.       *)
(*                                                                         *)
(* The node and the chain are the environment.  One chain is modelled: an  *)
(* accepted transaction enters the ledger `txs` as "pending" and is mined  *)
(* later, in nonce order per sender, to "success" (receipt status 1) or    *)
(* "reverted" (receipt status 0).  Only the wallets of the model sign for  *)
(* the two accounts.  How the RPC endpoints answer is an input of every    *)
(* handler: `net` gives, per endpoint, its answer while the handler runs.  *)
(***************************************************************************)
EXTENDS Integers, Sequences, FiniteSets, TLC

VARIABLES
    w3,           \* per wallet object: index of the endpoint self.w3 wraps, 0 = None
    account,      \* per wallet object: the account held, NoAccount = None
    connectLog,   \* per wallet object: what its last connect_to_network did
    balanceCall,  \* the last get_token_balance call and what it returned
    txs,          \* the ledger: every transaction the node accepted, in order
    flows,        \* every flow invocation: its dialog answer, its transactions, its report
    timers,       \* pending QTimer.singleShot(3000, send_real_deposit) callbacks
    config,       \* TRUE when config.json was there to load
    nonceBase,    \* per account: its transaction count before the first call
    lastCall,     \* the last call of a wallet method besides get_token_balance
    files,        \* the keystore files: what each file name holds
    procs,        \* per process running call_contract_function: where it is, the nonce it read
    sentRaw,      \* every raw transaction handed to send_raw_transaction, in order
    users         \* the user files on disk, and what each start of the browser loaded

vars == <<w3, account, connectLog, balanceCall, txs, flows, timers, config,
          nonceBase, lastCall, files, procs, sentRaw, users>>

walletVars == <<w3, account, connectLog>>
flowVars == <<txs, flows, timers>>
apiVars == <<lastCall, files, procs, sentRaw, users>>

----------------------------------------------------------------------------
(* Bounds of the model *)

MaxTxs == 2          \* transactions the node accepts in one behaviour
MaxFlows == 2        \* flow invocations recorded in one behaviour
MaxBase == 1         \* largest transaction count an account starts with
MaxStarts == 3       \* starts of the browser in one behaviour

----------------------------------------------------------------------------
(* wallet.py: BurgerBrowsWallet *)

NumEndpoints == 3
rpc_urls == 1..NumEndpoints
chain_id == 11155111

\* "up": is_connected() is True (block_number may answer or raise after it:
\*       connect_to_network returns True on both paths, lines 68-76)
\* "down": is_connected() is False
\* "raise": building the provider for this URL raises; web3's is_connected()
\*       itself reports a transport error as False and does not raise
ProbeStates == {"up", "down", "raise"}
Reachable(s) == s = "up"

\* the answers of the endpoints during one handler that builds a wallet
Nets == [rpc_urls -> ProbeStates]

\* the answers of the endpoints to a wallet that was built before: the
\* is_connected() of a provider that exists is True or False
LiveNets == [rpc_urls -> {"up", "down"}]

NoAccount == "None"
UserAccount == "user"
HackathonAccount == "hackathon"
Accounts == {UserAccount, HackathonAccount}

\* the wallet objects that live on: browser.wallet (the user's key),
\* reward_manager.wallet (the hackathon key) and a wallet built on its own,
\* as demo_wallet() builds one.  The wallet of a BurgerBrowsContracts object
\* lives inside the handler that builds it.
UserWallet == "user"
RewardWallet == "reward"
DemoWallet == "demo"
Wallets == {UserWallet, RewardWallet, DemoWallet}

\* A private key string, by what import_wallet looks at: whether it starts
\* with '0x', its length in characters, whether what follows the prefix is
\* hexadecimal throughout, whether the number it writes is a private key of
\* the curve (from 1 to the group order less 1), and the account of that key.
hackathon_private_key ==
    [prefix |-> TRUE, len |-> 66, isHex |-> TRUE, inRange |-> TRUE,
     owner |-> HackathonAccount]
user_private_key ==
    [prefix |-> FALSE, len |-> 64, isHex |-> TRUE, inRange |-> TRUE,
     owner |-> UserAccount]

\* connectLog of a wallet object that was not built
NoConnect == [called |-> FALSE]

\* a loop that goes on after a probe succeeded: the last success wins
RECURSIVE ProbeThrough(_, _, _, _)
ProbeThrough(i, cur, ep, probed) ==
    IF i > NumEndpoints
    THEN [w3 |-> cur, ret |-> cur # 0 /\ Reachable(ep[cur]), probed |-> probed,
          raised |-> FALSE]
    ELSE IF ep[i] = "raise"
         THEN ProbeThrough(i + 1, cur, ep, Append(probed, <<i, "raise">>))
         ELSE IF ~Reachable(ep[i]) /\ cur # 0 /\ Reachable(ep[cur])
              THEN ProbeThrough(i + 1, cur, ep, Append(probed, <<i, ep[i]>>))
              ELSE ProbeThrough(i + 1, i, ep, Append(probed, <<i, ep[i]>>))

\* the loop of connect_to_network from rpc_urls[i] on; cur is self.w3 so far
RECURSIVE ProbeFrom(_, _, _, _)
ProbeFrom(i, cur, ep, probed) ==
    IF i > NumEndpoints
    THEN [w3 |-> cur, ret |-> FALSE, probed |-> probed, raised |-> FALSE]
    ELSE IF ep[i] = "raise"
         THEN ProbeFrom(i + 1, cur, ep, Append(probed, <<i, "raise">>))
         ELSE IF Reachable(ep[i])
              THEN [w3 |-> i, ret |-> TRUE,
                    probed |-> Append(probed, <<i, ep[i]>>), raised |-> FALSE]
              ELSE ProbeFrom(i + 1, i, ep, Append(probed, <<i, "down">>))

connect_to_network(cur, ep) == ProbeFrom(1, cur, ep, <<>>)

\* is_connected without the probe: self.w3 is not None
ConnectedIfSet(cur, net) == cur # 0

\* self.w3 is not None and self.w3.is_connected(), for self.w3 = cur
ConnectedVia(cur, net) == cur # 0 /\ Reachable(net[cur])

is_connected(w, net) == ConnectedVia(w3[w], net)

\* len(private_key) once the prefix is removed
StrippedLen(key) == IF key.prefix THEN key.len - 2 ELSE key.len

\* import_wallet without the length test: whatever the library takes is taken
import_wallet_any_length(acc, key) ==
    IF ~key.isHex \/ ~key.inRange THEN [account |-> acc, ret |-> FALSE]
    ELSE [account |-> key.owner, ret |-> TRUE]

\* an import that lets go of the account it held when the key is refused
import_wallet_clearing(acc, key) ==
    IF StrippedLen(key) # 64 THEN [account |-> NoAccount, ret |-> FALSE]
    ELSE IF ~key.isHex \/ ~key.inRange THEN [account |-> NoAccount, ret |-> FALSE]
    ELSE [account |-> key.owner, ret |-> TRUE]

\* an import that takes the text as it comes, '0x' included
import_wallet_unstripped(acc, key) ==
    IF key.len # 64 THEN [account |-> acc, ret |-> FALSE]
    ELSE IF ~key.isHex \/ ~key.inRange THEN [account |-> acc, ret |-> FALSE]
    ELSE [account |-> key.owner, ret |-> TRUE]

\* import_wallet on a wallet that holds acc: the account afterwards and the
\* value returned.  Account.from_key raises on a string that is not
\* hexadecimal and on a number that is no private key of the curve.
import_wallet(acc, key) ==
    IF StrippedLen(key) # 64 THEN [account |-> acc, ret |-> FALSE]
    ELSE IF ~key.isHex \/ ~key.inRange THEN [account |-> acc, ret |-> FALSE]
    ELSE [account |-> key.owner, ret |-> TRUE]

\* __init__: connect, then the hackathon key when asked for
WalletInit(use_hackathon_wallet, net) ==
    LET c == connect_to_network(0, net)
        imp == import_wallet(NoAccount, hackathon_private_key)
    IN  [w3 |-> c.w3,
         account |-> IF use_hackathon_wallet /\ ~c.raised
                     THEN imp.account ELSE NoAccount,
         log |-> [called |-> TRUE, net |-> net, ret |-> c.ret,
                  probed |-> c.probed, raised |-> c.raised,
                  printed |-> ConnectedVia(c.w3, net)]]

----------------------------------------------------------------------------
(* Python floats (IEEE 754 binary64) and int(), as far as the amounts need  *)
(* them.  A float is [mant, exp]: mant is its 53-bit significand, most      *)
(* significant bit first, and its value is mant * 2^(exp - 52).  Bit        *)
(* strings are worked on in chunks of 13 bits, which keeps every            *)
(* intermediate number below 2^31.                                          *)

MantBits == 53

Min(a, b) == IF a < b THEN a ELSE b

\* the W-bit string of n, for n < 2^W
BitsW(n, W) == [i \in 1..W |-> (n \div 2^(W - i)) % 2]

Zeros(W) == [i \in 1..W |-> 0]

HasOne(bits) == \E i \in 1..Len(bits) : bits[i] = 1

\* the bit string without its leading zeros
Strip(bits) ==
    IF ~HasOne(bits) THEN <<>>
    ELSE LET first == CHOOSE i \in 1..Len(bits) :
                          bits[i] = 1 /\ \A j \in 1..(i - 1) : bits[j] = 0
         IN  SubSeq(bits, first, Len(bits))

\* the number a bit string of at most 31 bits stands for
RECURSIVE FromBits(_)
FromBits(bits) ==
    IF bits = <<>> THEN 0
    ELSE 2 * FromBits(SubSeq(bits, 1, Len(bits) - 1)) + bits[Len(bits)]

\* bits + 1, one bit longer when every bit was 1
IncBits(bits) ==
    IF \A i \in 1..Len(bits) : bits[i] = 1
    THEN <<1>> \o Zeros(Len(bits))
    ELSE LET z == CHOOSE i \in 1..Len(bits) :
                      bits[i] = 0 /\ \A j \in (i + 1)..Len(bits) : bits[j] = 1
         IN  SubSeq(bits, 1, z - 1) \o <<1>> \o Zeros(Len(bits) - z)

\* round-half-to-even of a bit string of at least MantBits bits to MantBits
\* bits; sticky tells whether something nonzero lies below the string
RoundBits(bits, sticky) ==
    LET top == SubSeq(bits, 1, MantBits)
        rest == SubSeq(bits, MantBits + 1, Len(bits))
        guard == IF rest = <<>> THEN 0 ELSE rest[1]
        below == sticky \/ HasOne(SubSeq(rest, 2, Len(rest)))
        up == guard = 1 /\ (below \/ top[MantBits] = 1)
        inc == IncBits(top)
    IN  IF ~up THEN [mant |-> top, carry |-> 0]
        ELSE IF Len(inc) > MantBits
             THEN [mant |-> SubSeq(inc, 1, MantBits), carry |-> 1]
             ELSE [mant |-> inc, carry |-> 0]

\* n / d scaled into [1, 2): n / d = (n' / d') * 2^k
RECURSIVE Normalize(_, _, _)
Normalize(n, d, k) ==
    IF n >= 2 * d THEN Normalize(n, 2 * d, k + 1)
    ELSE IF n < d THEN Normalize(2 * n, d, k - 1)
    ELSE [n |-> n, d |-> d, k |-> k]

\* the next `count` bits of the binary expansion of r / d, with r < d < 2^18
RECURSIVE DivBits(_, _, _, _)
DivBits(r, d, count, acc) ==
    IF count = 0 THEN [bits |-> acc, rem |-> r]
    ELSE LET w == Min(count, 13)
             v == r * 2^w
         IN  DivBits(v % d, d, count - w, acc \o BitsW(v \div d, w))

\* the float nearest to n / d, for n > 0: what float("n/d" as a decimal) is
NearestFloat(n, d) ==
    LET z == Normalize(n, d, 0)
        q == DivBits(z.n - z.d, z.d, MantBits, <<1>>)
        r == RoundBits(q.bits, q.rem # 0)
    IN  [mant |-> r.mant, exp |-> z.k + r.carry]

\* bits[1..hi] * m + carry for a natural m < 2^14, as a bit string
RECURSIVE MulStep(_, _, _, _, _)
MulStep(bits, m, hi, carry, acc) ==
    IF hi = 0 THEN BitsW(carry, 14) \o acc
    ELSE LET w == Min(hi, 13)
             v == FromBits(SubSeq(bits, hi - w + 1, hi)) * m + carry
         IN  MulStep(bits, m, hi - w, v \div 2^w, BitsW(v % 2^w, w) \o acc)

\* bits * m for a natural m < 2^14, exactly, without leading zeros
MulBits(bits, m) == Strip(MulStep(bits, m, Len(bits), 0, <<>>))

\* x * 10**6 in float arithmetic: the exact product, 10^6 = 15625 * 2^6,
\* rounded to nearest
FloatTimesMillion(x) ==
    LET p == MulBits(x.mant, 15625)
        r == RoundBits(p, FALSE)
    IN  [mant |-> r.mant, exp |-> x.exp + 6 + (Len(p) - MantBits) + r.carry]

\* int(x) for 0 <= x < 2^31: truncation
IntOfFloat(x) ==
    IF x.exp < 0 THEN 0
    ELSE FromBits(SubSeq(x.mant, 1, x.exp + 1))

\* the value QInputDialog.getDouble(decimals=2) returns for an entry of
\* `cents` hundredths
AmountOfCents(cents) == NearestFloat(cents, 100)

\* amount_with_decimals = int(amount * 10**6)
amount_with_decimals(amount) == IntOfFloat(FloatTimesMillion(amount))

\* int(amount): what send_real_deposit passes to deposit()
int_amount(amount) == IntOfFloat(amount)

\* Wei amounts pass 2^31: a natural number of any size is its bit string
\* without leading zeros, <<>> for 0.

\* the bit string of n < 2^31
BitsOf(n) == Strip(BitsW(n, 31))

\* a + b for two bit strings of the same length, from chunk hi downwards
RECURSIVE AddStep(_, _, _, _, _)
AddStep(a, b, hi, carry, acc) ==
    IF hi = 0 THEN <<carry>> \o acc
    ELSE LET w == Min(hi, 13)
             v == FromBits(SubSeq(a, hi - w + 1, hi))
                  + FromBits(SubSeq(b, hi - w + 1, hi)) + carry
         IN  AddStep(a, b, hi - w, v \div 2^w, BitsW(v % 2^w, w) \o acc)

\* a + b, exactly
AddBits(a, b) ==
    LET L == IF Len(a) > Len(b) THEN Len(a) ELSE Len(b)
    IN  Strip(AddStep(Zeros(L - Len(a)) \o a, Zeros(L - Len(b)) \o b, L, 0, <<>>))

\* a * b, exactly: b is taken 13 bits at a time, lowest first
RECURSIVE TimesBits(_, _)
TimesBits(a, b) ==
    IF b = <<>> THEN <<>>
    ELSE LET w == Min(Len(b), 13)
             low == FromBits(SubSeq(b, Len(b) - w + 1, Len(b)))
             high == TimesBits(a, SubSeq(b, 1, Len(b) - w))
         IN  AddBits(MulBits(a, low),
                     IF high = <<>> THEN <<>> ELSE high \o Zeros(w))

\* bits \div d for 0 < d < 2^14, from the highest chunk downwards
RECURSIVE QuotStep(_, _, _, _, _)
QuotStep(bits, d, lo, rem, acc) ==
    IF lo > Len(bits) THEN acc
    ELSE LET w == Min(Len(bits) - lo + 1, 13)
             v == rem * 2^w + FromBits(SubSeq(bits, lo, lo + w - 1))
         IN  QuotStep(bits, d, lo + w, v % d, acc \o BitsW(v \div d, w))

QuotBits(bits, d) == Strip(QuotStep(bits, d, 1, 0, <<>>))

\* a < b
LessBits(a, b) ==
    \/ Len(a) < Len(b)
    \/ /\ Len(a) = Len(b)
       /\ \E i \in 1..Len(a) : /\ a[i] < b[i]
                               /\ \A j \in 1..(i - 1) : a[j] = b[j]

\* float(n) for a natural n > 0: n itself up to 2^53, the nearest float above
FloatOfInt(bits) ==
    IF Len(bits) <= MantBits
    THEN [mant |-> bits \o Zeros(MantBits - Len(bits)), exp |-> Len(bits) - 1]
    ELSE LET r == RoundBits(bits, FALSE)
         IN  [mant |-> r.mant, exp |-> Len(bits) - 1 + r.carry]

\* x * y in float arithmetic: the exact product of the significands, rounded
\* to nearest
FloatTimes(x, y) ==
    LET p == TimesBits(x.mant, y.mant)
        r == RoundBits(p, FALSE)
    IN  [mant |-> r.mant,
         exp |-> x.exp + y.exp + (Len(p) - (2 * MantBits - 1)) + r.carry]

\* int(x) of any size, for x >= 0: truncation
IntBitsOfFloat(x) ==
    IF x.exp < 0 THEN <<>>
    ELSE IF x.exp < MantBits THEN SubSeq(x.mant, 1, x.exp + 1)
    ELSE x.mant \o Zeros(x.exp - (MantBits - 1))


----------------------------------------------------------------------------
(* The node, as the wallet sees it: transaction counts, acceptance, mining *)

Mined(t) == t.status \in {"success", "reverted"}

\* eth_getTransactionCount(address, 'latest')
ConfirmedCount(ledger, a) ==
    nonceBase[a] +
    Cardinality({i \in 1..Len(ledger) : ledger[i].sender = a /\ Mined(ledger[i])})

RECURSIVE NextFree(_, _, _)
NextFree(ledger, a, n) ==
    IF \E i \in 1..Len(ledger) : /\ ledger[i].sender = a
                                 /\ ledger[i].status = "pending"
                                 /\ ledger[i].nonce = n
    THEN NextFree(ledger, a, n + 1)
    ELSE n

\* eth_getTransactionCount(address, 'pending'): confirmed plus pending
PendingCount(ledger, a) == NextFree(ledger, a, ConfirmedCount(ledger, a))

\* eth_sendRawTransaction: a nonce below the confirmed count is refused
NodeAccepts(ledger, a, nonce) == nonce >= ConfirmedCount(ledger, a)

\* the ledger once transaction h is mined with `outcome`: the sender's earlier
\* pending transactions are mined before it, with the statuses st
MineThrough(ledger, h, outcome, st) ==
    [i \in 1..Len(ledger) |->
        IF i = h
        THEN [ledger[i] EXCEPT !.status =
                 IF outcome = "status1" THEN "success" ELSE "reverted"]
        ELSE IF /\ ledger[i].sender = ledger[h].sender
                /\ ledger[i].status = "pending"
                /\ ledger[i].nonce <= ledger[h].nonce
             THEN [ledger[i] EXCEPT !.status =
                      IF ledger[i].nonce = ledger[h].nonce THEN "dropped" ELSE st[i]]
             ELSE ledger[i]]

\* the pending transactions of account a, which a wait may see mined
PendingOf(ledger, a) ==
    {i \in 1..Len(ledger) : ledger[i].sender = a /\ ledger[i].status = "pending"}

Statuses == {"success", "reverted"}
WaitOutcomes == {"status1", "status0", "timeout"}

----------------------------------------------------------------------------
(* wallet.py: transactions *)

\* the nonce without 'pending': the confirmed count alone
TxNonceLatest(ledger, a) == ConfirmedCount(ledger, a)

\* a nonce the wallet counts by itself: one further for a transaction it has
\* sent, accepted or not
TxNonceCountingSent(ledger, a) ==
    PendingCount(ledger, a)
    + (IF /\ lastCall.fn = "call_contract_function"
          /\ lastCall.sent = 1
          /\ lastCall.hash = 0
       THEN 1 ELSE 0)

\* nonce = self.w3.eth.get_transaction_count(self.account.address, 'pending')
TxNonce(ledger, a) == PendingCount(ledger, a)

\* a call that sends the signed transaction a second time when the node
\* refuses it
call_contract_function_retrying(connected, acc, ledger, fn, args, f, accept) ==
    IF ~connected \/ acc = NoAccount
    THEN [hash |-> 0, txs |-> ledger, sent |-> 0]
    ELSE LET nonce == TxNonce(ledger, acc)
             tx == [sender |-> acc, fn |-> fn, args |-> args, nonce |-> nonce,
                    chainId |-> chain_id, flow |-> f, status |-> "pending"]
         IN  IF accept /\ NodeAccepts(ledger, acc, nonce)
             THEN [hash |-> Len(ledger) + 1, txs |-> Append(ledger, tx), sent |-> 1]
             ELSE [hash |-> 0, txs |-> ledger, sent |-> 2]

\* a call that does not ask whether the wallet is connected
call_contract_function_unguarded(connected, acc, ledger, fn, args, f, accept) ==
    IF acc = NoAccount
    THEN [hash |-> 0, txs |-> ledger, sent |-> 0]
    ELSE LET nonce == TxNonce(ledger, acc)
             tx == [sender |-> acc, fn |-> fn, args |-> args, nonce |-> nonce,
                    chainId |-> chain_id, flow |-> f, status |-> "pending"]
         IN  IF accept /\ NodeAccepts(ledger, acc, nonce)
             THEN [hash |-> Len(ledger) + 1, txs |-> Append(ledger, tx), sent |-> 1]
             ELSE [hash |-> 0, txs |-> ledger, sent |-> 1]

\* call_contract_function on a wallet that is `connected` and holds `acc`:
\* the ledger afterwards, the hash returned (0 = None) and how many times
\* send_raw_transaction was called; `accept` is the node's answer to
\* send_raw_transaction, f the flow the call belongs to.  The ledger keeps of
\* a transaction what the chain orders it by.
call_contract_function(connected, acc, ledger, fn, args, f, accept) ==
    IF ~connected \/ acc = NoAccount
    THEN [hash |-> 0, txs |-> ledger, sent |-> 0]
    ELSE LET nonce == TxNonce(ledger, acc)
             tx == [sender |-> acc, fn |-> fn, args |-> args, nonce |-> nonce,
                    chainId |-> chain_id, flow |-> f, status |-> "pending"]
         IN  IF accept /\ NodeAccepts(ledger, acc, nonce)
             THEN [hash |-> Len(ledger) + 1, txs |-> Append(ledger, tx), sent |-> 1]
             ELSE [hash |-> 0, txs |-> ledger, sent |-> 1]

\* gwei * 10^9 + wei, for gwei and wei below 2^31
Wei(gwei, wei) == AddBits(TimesBits(BitsOf(gwei), BitsOf(1000000000)), BitsOf(wei))

\* what self.w3.eth.gas_price may answer, in wei: nothing, 4 wei, 1 gwei,
\* 25 gwei, 3752999689475409 and 3752999689475414
GasQuotes ==
    { Wei(0, 0), Wei(0, 4), Wei(1, 0), Wei(25, 0),
      Wei(3752999, 689475409), Wei(3752999, 689475414) }

\* the price without the buffer
unbuffered_gas_price(current_gas_price) == current_gas_price

\* buffered_gas_price = int(current_gas_price * 1.2): the quote as a float,
\* times the float 1.2, truncated
buffered_gas_price(current_gas_price) ==
    IF current_gas_price = <<>> THEN <<>>
    ELSE IntBitsOfFloat(FloatTimes(FloatOfInt(current_gas_price),
                                   NearestFloat(12, 10)))

\* buffered_gas_price over the quotes, worked out once
BufferedPrices == {<<q, buffered_gas_price(q)>> : q \in GasQuotes}

\* the dictionary build_transaction is given, with the nonce
contract_transaction(acc, ledger, quote) ==
    [from |-> acc, gas |-> 300000,
     gasPrice |-> (CHOOSE p \in BufferedPrices : p[1] = quote)[2],
     nonce |-> TxNonce(ledger, acc), chainId |-> chain_id]

\* nonce = self.w3.eth.get_transaction_count(self.account.address): the
\* count at the default block, 'latest'
TransferNonce(ledger, a) == ConfirmedCount(ledger, a)

\* a transfer built for the main network, chain 1
transfer_transaction_mainnet(acc, ledger, to_address, amount_eth, quote) ==
    [to |-> to_address, value |-> amount_eth, gas |-> 21000, gasPrice |-> quote,
     nonce |-> TransferNonce(ledger, acc), chainId |-> 1]

\* the transaction send_transaction builds
transfer_transaction(acc, ledger, to_address, amount_eth, quote) ==
    [to |-> to_address, value |-> amount_eth, gas |-> 21000, gasPrice |-> quote,
     nonce |-> TransferNonce(ledger, acc), chainId |-> chain_id]

\* send_transaction(to_address, amount_eth) on a wallet that is `connected`
\* and holds `acc`: the ledger afterwards, the hash returned (0 = None) and
\* how many times send_raw_transaction was called
send_transaction(connected, acc, ledger, to_address, amount_eth, accept) ==
    IF ~connected \/ acc = NoAccount
    THEN [hash |-> 0, txs |-> ledger, sent |-> 0]
    ELSE LET nonce == TransferNonce(ledger, acc)
             tx == [sender |-> acc, fn |-> "value",
                    args |-> <<to_address, amount_eth>>, nonce |-> nonce,
                    chainId |-> chain_id, flow |-> 0, status |-> "pending"]
         IN  IF accept /\ NodeAccepts(ledger, acc, nonce)
             THEN [hash |-> Len(ledger) + 1, txs |-> Append(ledger, tx), sent |-> 1]
             ELSE [hash |-> 0, txs |-> ledger, sent |-> 1]

\* a wait that hands back the receipts of successful transactions only
wait_for_success_only(connected, outcome) ==
    IF ~connected THEN "None"
    ELSE IF outcome = "status1" THEN outcome
    ELSE "None"

\* wait_for_transaction: the receipt's status, or "None"
wait_for_transaction(connected, outcome) ==
    IF ~connected THEN "None"
    ELSE IF outcome = "timeout" THEN "None"
    ELSE outcome

NoReceipt == "None"

----------------------------------------------------------------------------
(* contracts.py, reward_system.py, rewards.py *)

\* int(amount * 10**6) for amount = 100 (contracts.py:121) and 100.0
\* (browser.py:1312)
MintUnits == 100

\* amount_with_decimals of the two mint functions
MintRaw == amount_with_decimals(NearestFloat(MintUnits, 1))

\* BurgerBrowsContracts.mint_test_usdc(100) on the contracts wallet
mint_test_usdc(connected, acc, ledger, f, accept, outcome, st) ==
    IF ~connected \/ acc = NoAccount
    THEN [txs |-> ledger, hash |-> 0, receipt |-> NoReceipt, ret |-> 0]
    ELSE LET r == call_contract_function(connected, acc, ledger, "mint",
                      <<acc, MintRaw>>,
                      f, accept)
             mined == r.hash # 0 /\ outcome # "timeout"
             receipt == IF r.hash # 0
                        THEN wait_for_transaction(connected, outcome)
                        ELSE NoReceipt
         IN  [txs |-> IF mined THEN MineThrough(r.txs, r.hash, outcome, st)
                      ELSE r.txs,
              hash |-> r.hash,
              receipt |-> receipt,
              ret |-> IF r.hash # 0 /\ receipt = "status1" THEN r.hash ELSE 0]

\* total_reward = base_reward + activity_score / 10.0: 10.0 + 10.0, exact
base_reward == 10
activity_score == 100
RewardUnits == base_reward + activity_score \div 10
RewardRaw == amount_with_decimals(NearestFloat(RewardUnits, 1))

\* FixedRewardManager.claim_meaningful_reward(user_address, 100)
claim_meaningful_reward(connected, acc, ledger, f, accept) ==
    IF ~config
    THEN [hash |-> 0, txs |-> ledger]
    ELSE call_contract_function(connected, acc, ledger, "transfer",
             <<UserAccount, RewardRaw>>,
             f, accept)


----------------------------------------------------------------------------
(* wallet.py: get_token_balance *)

\* A balance as a decimal number, whole + frac / 10^scale, with no trailing
\* zero in frac.  balance_raw / (10 ** decimals) is Python's true division:
\* it returns the float nearest to this number.
RECURSIVE Canon(_, _, _)
Canon(whole, frac, scale) ==
    IF scale = 0 THEN [whole |-> whole, frac |-> 0, scale |-> 0]
    ELSE IF frac % 10 = 0 THEN Canon(whole, frac \div 10, scale - 1)
    ELSE [whole |-> whole, frac |-> frac, scale |-> scale]

\* the division with the exponent fixed to 6, whatever decimals() answers
TrueDivSix(balance_raw, decimals) ==
    Canon(balance_raw \div 10^6, balance_raw % 10^6, 6)

TrueDiv(balance_raw, decimals) ==
    Canon(balance_raw \div 10^decimals, balance_raw % 10^decimals, decimals)

\* return 0.0
ZeroBalance == [whole |-> 0, frac |-> 0, scale |-> 0]

\* The token contract as the view calls see it: what balanceOf answers per
\* holder, what decimals() answers, and the step that raises, if one does
\* ("address": to_checksum_address refuses the token address).
TokenLedgers ==
    { [a \in Accounts |-> IF a = UserAccount THEN 100000000 ELSE 250000000],
      [a \in Accounts |-> IF a = UserAccount THEN 1234567 ELSE 0] }
TokenDecimals == {0, 6, 8}
ViewFailures == {"address", "balanceOf", "decimals"}
Tokens ==
    [balanceOf : TokenLedgers, decimals : TokenDecimals, fail : {"none"}]
    \cup { [balanceOf |-> l, decimals |-> 6, fail |-> x] :
             l \in {t \in TokenLedgers : t[HackathonAccount] = 0},
             x \in ViewFailures }

\* get_token_balance testing the connection only, so that a wallet without
\* an account still asks the token for an explicit holder
get_token_balance_for_holder(connected, acc, holder_address, token) ==
    LET addr == IF holder_address # NoAccount THEN holder_address ELSE acc
    IN  IF ~connected \/ addr = NoAccount
        THEN [ret |-> ZeroBalance, raised |-> FALSE, asked |-> NoAccount]
        ELSE IF token.fail = "address"
        THEN [ret |-> ZeroBalance, raised |-> FALSE, asked |-> NoAccount]
        ELSE IF token.fail # "none"
        THEN [ret |-> ZeroBalance, raised |-> FALSE, asked |-> addr]
        ELSE [ret |-> TrueDiv(token.balanceOf[addr], token.decimals),
              raised |-> FALSE, asked |-> addr]

\* get_token_balance without its except clause: a failing view call raises
get_token_balance_unguarded(connected, acc, holder_address, token) ==
    IF ~connected \/ acc = NoAccount
    THEN [ret |-> ZeroBalance, raised |-> FALSE, asked |-> NoAccount]
    ELSE IF token.fail # "none"
    THEN [ret |-> ZeroBalance, raised |-> TRUE, asked |-> NoAccount]
    ELSE LET addr == IF holder_address # NoAccount THEN holder_address ELSE acc
         IN  [ret |-> TrueDiv(token.balanceOf[addr], token.decimals),
              raised |-> FALSE, asked |-> addr]

\* get_token_balance(token_address, holder_address) on a wallet that is
\* `connected` and holds `acc`: the value returned, whether an exception
\* left the function, and the address balanceOf was asked for
get_token_balance(connected, acc, holder_address, token) ==
    IF ~connected \/ acc = NoAccount
    THEN [ret |-> ZeroBalance, raised |-> FALSE, asked |-> NoAccount]
    ELSE IF token.fail = "address"
    THEN [ret |-> ZeroBalance, raised |-> FALSE, asked |-> NoAccount]
    ELSE LET addr == IF holder_address # NoAccount THEN holder_address ELSE acc
         IN  IF token.fail # "none"
             THEN [ret |-> ZeroBalance, raised |-> FALSE, asked |-> addr]
             ELSE [ret |-> TrueDiv(token.balanceOf[addr], token.decimals),
                   raised |-> FALSE, asked |-> addr]

NoBalanceCall == [called |-> FALSE]

\* lastCall, files and procs before anything was called, saved or started
NoCall == [fn |-> "none"]
FileNames == {"wallet.json"}
NoFiles == [f \in FileNames |-> [kind |-> "absent"]]
Procs == {"browser", "script"}
NoProcs == [p \in Procs |-> [pc |-> "idle", acc |-> NoAccount, nonce |-> 0]]

\* a wallet object that was built
Built(w) == connectLog[w].called /\ ~connectLog[w].raised

\* BurgerBrowsWallet(use_hackathon_wallet) builds wallet object w
NewWallet(w, use_hackathon_wallet, net) ==
    /\ ~connectLog[w].called
    /\ LET wi == WalletInit(use_hackathon_wallet, net)
       IN  /\ w3' = [w3 EXCEPT ![w] = wi.w3]
           /\ account' = [account EXCEPT ![w] = wi.account]
           /\ connectLog' = [connectLog EXCEPT ![w] = wi.log]
    /\ UNCHANGED <<balanceCall, flowVars, config, nonceBase, apiVars>>

\* w.import_wallet(key)
ImportWallet(w, key) ==
    /\ Built(w)
    /\ LET r == import_wallet(account[w], key)
       IN  /\ account' = [account EXCEPT ![w] = r.account]
           /\ lastCall' = [fn |-> "import_wallet", wallet |-> w, key |-> key,
                           before |-> account[w], ret |-> r.ret]
    /\ UNCHANGED <<w3, connectLog, balanceCall, flowVars, config, nonceBase,
                   files, procs, sentRaw, users>>

\* w.get_token_balance(token, holder_address)
GetTokenBalance(w, net, holder_address, token) ==
    /\ Built(w)
    /\ LET connected == is_connected(w, net)
           r == get_token_balance(connected, account[w], holder_address, token)
       IN  balanceCall' = [called |-> TRUE, wallet |-> w, connected |-> connected,
                           account |-> account[w], holder |-> holder_address,
                           token |-> token, ret |-> r.ret, raised |-> r.raised,
                           asked |-> r.asked]
    /\ UNCHANGED <<walletVars, flowVars, config, nonceBase, apiVars>>

\* private key strings handed to import_wallet
\* private key strings handed to import_wallet: the two keys of the program,
\* '0x' and 40 hexadecimal characters, 64 characters that are not all
\* hexadecimal, 66 hexadecimal characters, and 64 times 'f', a number above
\* the group order
PrivateKeys ==
    { hackathon_private_key, user_private_key,
      [prefix |-> TRUE, len |-> 42, isHex |-> TRUE, inRange |-> TRUE,
       owner |-> NoAccount],
      [prefix |-> FALSE, len |-> 64, isHex |-> FALSE, inRange |-> FALSE,
       owner |-> NoAccount],
      [prefix |-> FALSE, len |-> 66, isHex |-> TRUE, inRange |-> FALSE,
       owner |-> NoAccount],
      [prefix |-> FALSE, len |-> 64, isHex |-> TRUE, inRange |-> FALSE,
       owner |-> NoAccount] }

----------------------------------------------------------------------------
(* wallet.py: create_new_wallet and the keystore file *)

\* the account of a key that create_new_wallet drew
CreatedAccount == "created"

Passwords == {"p@ss", "other"}

\* create_new_wallet on a wallet that holds acc.  secrets.token_hex(32) is a
\* random number of 256 bits; `valid` says whether it is a private key of the
\* curve: Account.from_key raises when it is not, and {} is returned.
create_new_wallet(acc, valid) ==
    IF valid THEN [account |-> CreatedAccount, ret |-> TRUE]
    ELSE [account |-> acc, ret |-> FALSE]

\* Account.encrypt(self.account.key, password) as json: the key of the
\* account, readable with the password alone
Keystore(acc, password) == [kind |-> "keystore", owner |-> acc, password |-> password]

\* save_wallet_to_file(filename, password) on a wallet that holds acc:
\* what the file holds afterwards and the value returned; `writable` says
\* whether open(filename, 'w') succeeds
save_wallet_to_file(acc, content, password, writable) ==
    IF acc = NoAccount THEN [file |-> content, ret |-> FALSE]
    ELSE IF ~writable THEN [file |-> content, ret |-> FALSE]
    ELSE [file |-> Keystore(acc, password), ret |-> TRUE]

\* private_key.hex() of the decrypted key: 64 hexadecimal characters, behind
\* '0x' or not, as the hexbytes library at hand writes them
KeyString(acc, prefixed) ==
    [prefix |-> prefixed, len |-> IF prefixed THEN 66 ELSE 64, isHex |-> TRUE,
     inRange |-> TRUE, owner |-> acc]

\* a load that forgets the account it held when the file cannot be read
load_wallet_dropping_account(acc, content, password, prefixed) ==
    IF content.kind # "keystore" \/ content.password # password
    THEN [account |-> NoAccount, ret |-> FALSE, raised |-> FALSE]
    ELSE LET r == import_wallet(acc, KeyString(content.owner, prefixed))
         IN  [account |-> r.account, ret |-> r.ret, raised |-> FALSE]

\* load_wallet_from_file(filename, password) on a wallet that holds acc: the
\* account afterwards, the value returned, whether an exception left the
\* function.  open raises on a missing file, json.load or Account.decrypt on
\* a corrupt one, Account.decrypt on a wrong password; all end in the except
\* clause.
load_wallet_from_file(acc, content, password, prefixed) ==
    IF content.kind = "absent"
    THEN [account |-> acc, ret |-> FALSE, raised |-> FALSE]
    ELSE IF content.kind = "corrupt"
    THEN [account |-> acc, ret |-> FALSE, raised |-> FALSE]
    ELSE IF content.password # password
    THEN [account |-> acc, ret |-> FALSE, raised |-> FALSE]
    ELSE LET r == import_wallet(acc, KeyString(content.owner, prefixed))
         IN  [account |-> r.account, ret |-> r.ret, raised |-> FALSE]

\* w.create_new_wallet()
CreateNewWallet(w, valid) ==
    /\ Built(w)
    /\ LET r == create_new_wallet(account[w], valid)
       IN  /\ account' = [account EXCEPT ![w] = r.account]
           /\ lastCall' = [fn |-> "create_new_wallet", wallet |-> w,
                           before |-> account[w], ret |-> r.ret]
    /\ UNCHANGED <<w3, connectLog, balanceCall, flowVars, config, nonceBase,
                   files, procs, sentRaw, users>>

\* w.save_wallet_to_file(f, password)
SaveWallet(w, f, password, writable) ==
    /\ Built(w)
    /\ LET r == save_wallet_to_file(account[w], files[f], password, writable)
       IN  /\ files' = [files EXCEPT ![f] = r.file]
           /\ lastCall' = [fn |-> "save_wallet_to_file", wallet |-> w, file |-> f,
                           password |-> password, before |-> account[w],
                           ret |-> r.ret]
    /\ UNCHANGED <<walletVars, balanceCall, flowVars, config, nonceBase, procs, sentRaw, users>>

\* w.load_wallet_from_file(f, password)
LoadWallet(w, f, password, prefixed) ==
    /\ Built(w)
    /\ LET r == load_wallet_from_file(account[w], files[f], password, prefixed)
       IN  /\ account' = [account EXCEPT ![w] = r.account]
           /\ lastCall' = [fn |-> "load_wallet_from_file", wallet |-> w,
                           file |-> f, password |-> password,
                           content |-> files[f], before |-> account[w],
                           ret |-> r.ret, raised |-> r.raised]
    /\ UNCHANGED <<w3, connectLog, balanceCall, flowVars, config, nonceBase,
                   files, procs, sentRaw, users>>

\* what demo_wallet prints of wallet_data: a line is the field it shows and
\* how many of the field's characters.  The address is shown whole, of the
\* private key the first 20 and the last 20 of its 64 characters.
demo_output(created) ==
    IF created
    THEN { [field |-> "address", chars |-> 42],
           [field |-> "private_key", chars |-> 20 + 20] }
    ELSE {}

\* demo_wallet(): a wallet is built with the hackathon key, then
\* create_new_wallet is called on it and wallet_data printed.  The balance
\* queries and get_wallet_info that follow change nothing.
demo_wallet(net, valid) ==
    /\ ~connectLog[DemoWallet].called
    /\ LET wi == WalletInit(TRUE, net)
           c == create_new_wallet(wi.account, valid)
       IN  /\ w3' = [w3 EXCEPT ![DemoWallet] = wi.w3]
           /\ connectLog' = [connectLog EXCEPT ![DemoWallet] = wi.log]
           /\ IF wi.log.raised
              THEN /\ account' = [account EXCEPT ![DemoWallet] = wi.account]
                   /\ lastCall' = [fn |-> "demo_wallet", wallet |-> DemoWallet,
                                   before |-> wi.account, ret |-> FALSE,
                                   printed |-> {}]
              ELSE /\ account' = [account EXCEPT ![DemoWallet] = c.account]
                   /\ lastCall' = [fn |-> "demo_wallet", wallet |-> DemoWallet,
                                   before |-> wi.account, ret |-> c.ret,
                                   printed |-> demo_output(c.ret)]
    /\ UNCHANGED <<balanceCall, flowVars, config, nonceBase, files, procs, sentRaw, users>>

\* the file system: a file is damaged, or removed
DamageFile(f) ==
    /\ files[f].kind = "keystore"
    /\ files' = [files EXCEPT ![f] = [kind |-> "corrupt"]]
    /\ UNCHANGED <<walletVars, balanceCall, flowVars, config, nonceBase,
                   lastCall, procs, sentRaw, users>>

RemoveFile(f) ==
    /\ files[f].kind # "absent"
    /\ files' = [files EXCEPT ![f] = [kind |-> "absent"]]
    /\ UNCHANGED <<walletVars, balanceCall, flowVars, config, nonceBase,
                   lastCall, procs, sentRaw, users>>

----------------------------------------------------------------------------
(* wallet.py: the transaction methods called on a wallet object *)

\* how the endpoints answer while a method of a built wallet runs: all of
\* them, or none
CallNets == {[u \in rpc_urls |-> "up"], [u \in rpc_urls |-> "down"]}

\* w.call_contract_function(usdc, abi, 'transfer', user, 1) while the node
\* quotes `quote` as gas price.  `follows` tells whether the wallet's call
\* before this one was a contract call the node refused, and its nonce.
CallContract(w, net, quote, accept) ==
    /\ Built(w)
    /\ Len(txs) < MaxTxs
    /\ LET connected == is_connected(w, net)
           r == call_contract_function(connected, account[w], txs, "transfer",
                                       <<UserAccount, 1>>, 0, accept)
       IN  /\ txs' = r.txs
           /\ lastCall' =
                 [fn |-> "call_contract_function", wallet |-> w,
                  connected |-> connected, before |-> account[w],
                  w3 |-> w3[w], ledger |-> txs, after |-> r.txs, quote |-> quote,
                  accept |-> accept, sent |-> r.sent, hash |-> r.hash,
                  tx |-> IF r.sent = 0 THEN [nonce |-> 0, gasPrice |-> <<>>]
                         ELSE contract_transaction(account[w], txs, quote),
                  follows |-> IF /\ lastCall.fn = "call_contract_function"
                                 /\ lastCall.sent = 1
                                 /\ lastCall.hash = 0
                                 /\ r.sent = 1
                              THEN [refused |-> TRUE, nonce |-> lastCall.tx.nonce]
                              ELSE [refused |-> FALSE, nonce |-> 0]]
    /\ UNCHANGED <<walletVars, balanceCall, flows, timers, config, nonceBase,
                   files, procs, sentRaw, users>>

\* w.send_transaction(user, 1) while the node quotes `quote` as gas price
SendTransaction(w, net, quote, accept) ==
    /\ Built(w)
    /\ Len(txs) < MaxTxs
    /\ LET connected == is_connected(w, net)
           r == send_transaction(connected, account[w], txs, UserAccount, 1, accept)
       IN  /\ txs' = r.txs
           /\ lastCall' =
                 [fn |-> "send_transaction", wallet |-> w,
                  connected |-> connected, before |-> account[w],
                  w3 |-> w3[w], ledger |-> txs, after |-> r.txs, quote |-> quote,
                  accept |-> accept, sent |-> r.sent, hash |-> r.hash,
                  tx |-> IF r.sent = 0 THEN [nonce |-> 0, gasPrice |-> <<>>]
                         ELSE transfer_transaction(account[w], txs, UserAccount,
                                                   1, quote)]
    /\ UNCHANGED <<walletVars, balanceCall, flows, timers, config, nonceBase,
                   files, procs, sentRaw, users>>

\* what eth_getBalance answers: a balance, in gwei, or a transport failure
EthAnswers ==
    { [kind |-> "error", gwei |-> 0], [kind |-> "balance", gwei |-> 0],
      [kind |-> "balance", gwei |-> 1500000000] }

\* float(self.w3.from_wei(balance_wei, 'ether')) for a balance of whole gwei:
\* the float nearest to gwei / 10^9
EtherOfGwei(gwei) == Canon(gwei \div 10^9, gwei % 10^9, 9)

\* get_eth_balance(address) on a wallet that is `connected` and holds `acc`:
\* the value returned, whether an exception left the function, and whether
\* the node was asked
get_eth_balance(connected, acc, address, answer) ==
    IF ~connected
    THEN [ret |-> ZeroBalance, raised |-> FALSE, asked |-> FALSE]
    ELSE LET addr == IF address # NoAccount THEN address ELSE acc
         IN  IF addr = NoAccount
             THEN [ret |-> ZeroBalance, raised |-> FALSE, asked |-> FALSE]
             ELSE IF answer.kind = "error"
             THEN [ret |-> ZeroBalance, raised |-> FALSE, asked |-> TRUE]
             ELSE [ret |-> EtherOfGwei(answer.gwei), raised |-> FALSE,
                   asked |-> TRUE]

\* w.get_eth_balance(address); address = NoAccount stands for None
GetEthBalance(w, net, address, answer) ==
    /\ Built(w)
    /\ LET connected == is_connected(w, net)
           r == get_eth_balance(connected, account[w], address, answer)
       IN  lastCall' = [fn |-> "get_eth_balance", wallet |-> w,
                        connected |-> connected, before |-> account[w],
                        address |-> address, answer |-> answer, ret |-> r.ret,
                        raised |-> r.raised, asked |-> r.asked]
    /\ UNCHANGED <<walletVars, balanceCall, flowVars, config, nonceBase,
                   files, procs, sentRaw, users>>

\* w.wait_for_transaction(h) for a pending transaction h.  While the wallet
\* waits the chain mines h, with the receipt status of `outcome`, or the
\* timeout passes first; a wallet that is not connected does not wait.
WaitForTransaction(w, net, h, outcome, status) ==
    /\ Built(w)
    /\ h \in 1..Len(txs)
    /\ txs[h].status = "pending"
    /\ LET connected == is_connected(w, net)
           mined == connected /\ outcome # "timeout"
       IN  /\ txs' = IF mined
                     THEN MineThrough(txs, h, outcome,
                              [j \in PendingOf(txs, txs[h].sender) |-> status])
                     ELSE txs
           /\ lastCall' =
                 [fn |-> "wait_for_transaction", wallet |-> w,
                  connected |-> connected, hash |-> h,
                  outcome |-> IF connected THEN outcome ELSE "none",
                  ret |-> wait_for_transaction(connected, outcome)]
    /\ UNCHANGED <<walletVars, balanceCall, flows, timers, config, nonceBase,
                   files, procs, sentRaw, users>>

----------------------------------------------------------------------------
(* wallet.py: call_contract_function in two processes.  The browser's      *)
(* faucet flow and contracts.py run as a script each build a wallet with    *)
(* the hackathon key; nothing orders their requests to the node.            *)

\* process p enters call_contract_function on a wallet it has just built and
\* gets as far as the nonce: the guard, the gas price, get_transaction_count
ReadNonce(p, net) ==
    /\ procs[p].pc = "idle"
    /\ Len(sentRaw) + Cardinality({q \in Procs : procs[q].pc = "signing"}) < MaxTxs
    /\ LET wi == WalletInit(TRUE, net)
           connected == ConnectedVia(wi.w3, net)
       IN  IF ~connected \/ wi.account = NoAccount
           THEN UNCHANGED procs
           ELSE procs' = [procs EXCEPT ![p] =
                             [pc |-> "signing", acc |-> wi.account,
                              nonce |-> TxNonce(txs, wi.account)]]
    /\ UNCHANGED <<walletVars, balanceCall, flowVars, config, nonceBase,
                   lastCall, files, sentRaw, users>>

\* process p builds the transaction with the nonce it read, signs it and
\* hands it to send_raw_transaction; the call returns
SubmitRaw(p, accept) ==
    /\ procs[p].pc = "signing"
    /\ LET acc == procs[p].acc
           nonce == procs[p].nonce
           accepted == accept /\ NodeAccepts(txs, acc, nonce)
           to == IF p = "browser" THEN UserAccount ELSE acc
           tx == [sender |-> acc, fn |-> "mint", args |-> <<to, MintRaw>>,
                  nonce |-> nonce, chainId |-> chain_id, flow |-> 0,
                  status |-> "pending"]
       IN  /\ sentRaw' = Append(sentRaw, [proc |-> p, sender |-> acc,
                                          nonce |-> nonce, accepted |-> accepted])
           /\ txs' = IF accepted THEN Append(txs, tx) ELSE txs
           /\ procs' = [procs EXCEPT ![p] = NoProcs[p]]
    /\ UNCHANGED <<walletVars, balanceCall, flows, timers, config, nonceBase,
                   lastCall, files, users>>

----------------------------------------------------------------------------
(* browser.py: MultiUserWalletManager.create_or_load_user *)

\* who starts the browser: machine name, system and user name
Identities == {"ana@laptop", "ben@laptop"}

\* the working directories a start is made from
Dirs == {"home", "desktop"}

\* hashlib.sha256(machine_info.encode()).hexdigest()[:16]: one id per identity
UserIdOf(identity) == <<"sha256", identity>>

\* user_file = f"user_{user_id}.json": a name relative to the working
\* directory, so the file of one user id in one directory
UserFileOf(dir, identity) == <<dir, UserIdOf(identity)>>

UserFiles == {UserFileOf(d, i) : d \in Dirs, i \in Identities}

\* Account.from_key(private_key).address
AddressOf(key) == <<"address", key>>

NoUsers == [files |-> [f \in UserFiles |-> [kind |-> "absent"]], started |-> <<>>]

\* create_or_load_user() in a process started by `identity` in `dir`, over
\* the files `disk`: the files afterwards, the record returned, whether the
\* file was written, whether an exception left the function.  `key` is what
\* secrets.token_hex(32) draws; `written` tells how far json.dump got
\* before the process ended: "whole" or "partial".
create_or_load_user(disk, identity, dir, key, written) ==
    LET user_file == UserFileOf(dir, identity)
        content == disk[user_file]
        user_data == [user_id |-> UserIdOf(identity),
                      wallet_address |-> AddressOf(key), private_key |-> key]
    IN  IF content.kind = "record"
        THEN [files |-> disk, user_data |-> content.user_data, wrote |-> FALSE,
              raised |-> FALSE]
        ELSE IF content.kind = "corrupt"
        THEN [files |-> disk, user_data |-> content, wrote |-> FALSE,
              raised |-> TRUE]
        ELSE IF written = "partial"
        THEN [files |-> [disk EXCEPT ![user_file] = [kind |-> "corrupt"]],
              user_data |-> content, wrote |-> TRUE, raised |-> TRUE]
        ELSE [files |-> [disk EXCEPT ![user_file] =
                            [kind |-> "record", user_data |-> user_data]],
              user_data |-> user_data, wrote |-> TRUE, raised |-> FALSE]

\* the browser is started: MultiUserWalletManager() calls
\* create_or_load_user.  The key drawn is one no earlier start drew.
StartBrowser(identity, dir, written) ==
    /\ Len(users.started) < MaxStarts
    /\ LET r == create_or_load_user(users.files, identity, dir,
                                    Len(users.started) + 1, written)
       IN  users' = [files |-> r.files,
                     started |-> Append(users.started,
                         [identity |-> identity, dir |-> dir,
                          existed |-> users.files[UserFileOf(dir, identity)].kind
                                      # "absent",
                          before |-> users.files,
                          user_data |-> r.user_data, wrote |-> r.wrote,
                          raised |-> r.raised])]
    /\ UNCHANGED <<walletVars, balanceCall, flowVars, config, nonceBase,
                   lastCall, files, procs, sentRaw>>

----------------------------------------------------------------------------
(* browser.py: the wallet flows of RealMultiUserBrowser *)

\* the amounts typed into the deposit dialog, in hundredths of a USDC
DepositCents == {201, 10000}

\* per entry: the arguments the two steps of the deposit flow compute from it
ApproveTable == {<<c, amount_with_decimals(AmountOfCents(c))>> : c \in DepositCents}
DepositTable == {<<c, int_amount(AmountOfCents(c))>> : c \in DepositCents}
ApproveArg(c) == (CHOOSE p \in ApproveTable : p[1] = c)[2]
DepositArg(c) == (CHOOSE p \in DepositTable : p[1] = c)[2]

Answers == {"Yes", "No"}

\* a dialog whose answer is not looked at
AlwaysConfirmed(answer) == TRUE

\* msg.exec() == QMessageBox.StandardButton.Yes
Confirmed(answer) == answer = "Yes"

\* The record of one flow invocation: the dialog's answer, the hashes its
\* calls returned in order (0 = None), the receipt it waited for, the value
\* its mint function returned, what it told the user, and, for a deposit,
\* the state of its approve transaction when the deposit step ran.
Flow(kind, answer, cents, hash, receipt, ret, reported) ==
    [kind |-> kind, answer |-> answer, cents |-> cents, hashes |-> <<hash>>,
     receipt |-> receipt, ret |-> ret, reported |-> reported,
     approveSeen |-> "none"]

\* a mint that returns the hash without looking at the receipt
mint_on_hash_alone(connected, acc, ledger, f, accept, outcome, st) ==
    LET r == call_contract_function(connected, acc, ledger, "mint",
                 <<UserAccount, MintRaw>>,
                 f, accept)
        mined == r.hash # 0 /\ connected /\ outcome # "timeout"
        receipt == IF r.hash # 0
                   THEN wait_for_transaction(connected, outcome)
                   ELSE NoReceipt
    IN  [txs |-> IF mined THEN MineThrough(r.txs, r.hash, outcome, st) ELSE r.txs,
         hash |-> r.hash,
         receipt |-> receipt,
         ret |-> r.hash]

\* a faucet mint that names the signing wallet as recipient
mint_to_signer(connected, acc, ledger, f, accept, outcome, st) ==
    LET r == call_contract_function(connected, acc, ledger, "mint",
                 <<acc, MintRaw>>,
                 f, accept)
        mined == r.hash # 0 /\ connected /\ outcome # "timeout"
        receipt == IF r.hash # 0
                   THEN wait_for_transaction(connected, outcome)
                   ELSE NoReceipt
    IN  [txs |-> IF mined THEN MineThrough(r.txs, r.hash, outcome, st) ELSE r.txs,
         hash |-> r.hash,
         receipt |-> receipt,
         ret |-> IF r.hash # 0 /\ receipt = "status1" THEN r.hash ELSE 0]

\* RealMultiUserBrowser.mint_usdc_to_user_wallet(contracts, 100.0)
mint_usdc_to_user_wallet(connected, acc, ledger, f, accept, outcome, st) ==
    LET r == call_contract_function(connected, acc, ledger, "mint",
                 <<UserAccount, MintRaw>>,
                 f, accept)
        mined == r.hash # 0 /\ connected /\ outcome # "timeout"
        receipt == IF r.hash # 0
                   THEN wait_for_transaction(connected, outcome)
                   ELSE NoReceipt
    IN  [txs |-> IF mined THEN MineThrough(r.txs, r.hash, outcome, st) ELSE r.txs,
         hash |-> r.hash,
         receipt |-> receipt,
         ret |-> IF r.hash # 0 /\ receipt = "status1" THEN r.hash ELSE 0]

\* a deposit that sets the timer whether or not the approve returned a hash
deposit_scheduling_always(net, cents, ok, answer, accept) ==
    /\ Len(flows) < MaxFlows
    /\ Len(txs) < MaxTxs
    /\ IF \/ ~is_connected(UserWallet, net) \/ ~config
          \/ account[UserWallet] = NoAccount
          \/ ~ok
          \/ ~Confirmed(answer)
       THEN UNCHANGED flowVars
       ELSE LET f == Len(flows) + 1
                r == call_contract_function(is_connected(UserWallet, net),
                         account[UserWallet], txs, "approve",
                         <<"vault", ApproveArg(cents)>>, f, accept)
            IN  /\ txs' = r.txs
                /\ flows' = Append(flows,
                       Flow("deposit", answer, cents, r.hash, NoReceipt, 0,
                            IF r.hash # 0 THEN "none" ELSE "failure"))
                /\ timers' = Append(timers, f)
    /\ UNCHANGED <<walletVars, balanceCall, config, nonceBase, apiVars>>

\* deposit_real_usdc: the two dialogs, then approve and the 3 s timer
deposit_real_usdc(net, cents, ok, answer, accept) ==
    /\ Len(flows) < MaxFlows
    /\ Len(txs) < MaxTxs
    /\ IF \/ ~is_connected(UserWallet, net) \/ ~config
          \/ account[UserWallet] = NoAccount
          \/ ~ok
          \/ ~Confirmed(answer)
       THEN UNCHANGED flowVars
       ELSE LET f == Len(flows) + 1
                r == call_contract_function(is_connected(UserWallet, net),
                         account[UserWallet], txs, "approve",
                         <<"vault", ApproveArg(cents)>>, f, accept)
            IN  /\ txs' = r.txs
                /\ flows' = Append(flows,
                       Flow("deposit", answer, cents, r.hash, NoReceipt, 0,
                            IF r.hash # 0 THEN "none" ELSE "failure"))
                /\ timers' = IF r.hash # 0 THEN Append(timers, f) ELSE timers
    /\ UNCHANGED <<walletVars, balanceCall, config, nonceBase, apiVars>>

\* send_real_deposit(amount, vault_address), run by the timer
send_real_deposit(net, accept) ==
    /\ timers # <<>>
    /\ Len(txs) < MaxTxs
    /\ LET f == Head(timers)
           r == call_contract_function(is_connected(UserWallet, net),
                    account[UserWallet], txs, "deposit",
                    <<DepositArg(flows[f].cents)>>, f, accept)
       IN  /\ txs' = r.txs
           /\ flows' = [flows EXCEPT
                  ![f].hashes = Append(@, r.hash),
                  ![f].approveSeen = txs[flows[f].hashes[1]].status,
                  ![f].reported = IF r.hash # 0 THEN "success" ELSE "failure"]
           /\ timers' = Tail(timers)
    /\ UNCHANGED <<walletVars, balanceCall, config, nonceBase, apiVars>>

\* claim_real_rewards: the dialog, then claim_meaningful_reward
claim_real_rewards(net, answer, accept) ==
    /\ Len(flows) < MaxFlows
    /\ Len(txs) < MaxTxs
    /\ IF ~Confirmed(answer)
       THEN UNCHANGED flowVars
       ELSE LET f == Len(flows) + 1
                r == claim_meaningful_reward(is_connected(RewardWallet, net),
                         account[RewardWallet], txs, f, accept)
            IN  /\ txs' = r.txs
                /\ flows' = Append(flows,
                       Flow("claim", answer, 0, r.hash, NoReceipt, r.hash,
                            IF r.hash # 0 THEN "success" ELSE "failure"))
                /\ UNCHANGED timers
    /\ UNCHANGED <<walletVars, balanceCall, config, nonceBase, apiVars>>

\* get_test_usdc_from_faucet: the dialog, a new BurgerBrowsContracts (which
\* builds a wallet of its own), then mint_usdc_to_user_wallet
get_test_usdc_from_faucet(net, answer, accept, outcome, st) ==
    /\ Len(flows) < MaxFlows
    /\ Len(txs) < MaxTxs
    /\ IF ~Confirmed(answer)
       THEN UNCHANGED flowVars
       ELSE IF ~config
       THEN /\ flows' = Append(flows,
                   Flow("faucet", answer, 0, 0, NoReceipt, 0, "failure"))
            /\ UNCHANGED <<txs, timers>>
       ELSE LET f == Len(flows) + 1
                wi == WalletInit(TRUE, net)
                m == mint_usdc_to_user_wallet(ConnectedVia(wi.w3, net),
                         wi.account, txs, f, accept, outcome, st)
            IN  /\ txs' = m.txs
                /\ flows' = Append(flows,
                       Flow("faucet", answer, 0, m.hash, m.receipt, m.ret,
                            IF m.ret # 0 THEN "success" ELSE "failure"))
                /\ UNCHANGED timers
    /\ UNCHANGED <<walletVars, balanceCall, config, nonceBase, apiVars>>

\* contracts.py run as a script: BurgerBrowsContracts(), then mint_test_usdc(100)
\* when the wallet is connected
contracts_main(net, accept, outcome, st) ==
    /\ Len(flows) < MaxFlows
    /\ Len(txs) < MaxTxs
    /\ config
    /\ LET f == Len(flows) + 1
           wi == WalletInit(TRUE, net)
           connected == ConnectedVia(wi.w3, net)
           m == mint_test_usdc(connected, wi.account, txs, f, accept, outcome, st)
       IN  IF connected
           THEN /\ txs' = m.txs
                /\ flows' = Append(flows,
                       Flow("mint_test", "none", 0, m.hash, m.receipt, m.ret,
                            IF m.ret # 0 THEN "success" ELSE "none"))
           ELSE UNCHANGED <<txs, flows>>
    /\ UNCHANGED <<timers, walletVars, balanceCall, config, nonceBase, apiVars>>

----------------------------------------------------------------------------
(* The chain *)

\* the chain mines the next pending transaction of some sender
Mine(i, status) ==
    /\ i \in 1..Len(txs)
    /\ txs[i].status = "pending"
    /\ txs[i].nonce = ConfirmedCount(txs, txs[i].sender)
    /\ txs' = MineThrough(txs, i, IF status = "success" THEN "status1" ELSE "status0",
                          [j \in PendingOf(txs, txs[i].sender) |-> status])
    /\ UNCHANGED <<walletVars, balanceCall, flows, timers, config, nonceBase, apiVars>>

----------------------------------------------------------------------------
(* The browser and its flows *)

\* RealMultiUserBrowser.__init__: the user's wallet (setup_real_wallet) and
\* the reward manager's wallet are built, one after the other, while the
\* endpoints answer as `net` says
BrowserInit(net) ==
    LET u == WalletInit(FALSE, net)
        ui == import_wallet(u.account, user_private_key)
        r == WalletInit(TRUE, net)
    IN  /\ w3 = [w \in Wallets |->
                   IF w = UserWallet THEN u.w3
                   ELSE IF w = RewardWallet THEN r.w3 ELSE 0]
        /\ account = [w \in Wallets |->
                   IF w = UserWallet THEN ui.account
                   ELSE IF w = RewardWallet THEN r.account ELSE NoAccount]
        /\ connectLog = [w \in Wallets |->
                   IF w = UserWallet THEN u.log
                   ELSE IF w = RewardWallet THEN r.log ELSE NoConnect]

\* the answers of the endpoints while the browser starts: every endpoint
\* answers; none does, and self.w3 is left at the third; no provider can be
\* built, and self.w3 stays None
StartNets ==
    { <<"up", "up", "up">>, <<"raise", "down", "down">>,
      <<"raise", "raise", "raise">> }

Init ==
    /\ \E net \in StartNets : BrowserInit(net)
    /\ balanceCall = NoBalanceCall
    /\ lastCall = NoCall
    /\ files = NoFiles
    /\ procs = NoProcs
    /\ sentRaw = <<>>
    /\ users = NoUsers
    /\ txs = <<>>
    /\ flows = <<>>
    /\ timers = <<>>
    /\ config \in BOOLEAN
    /\ nonceBase \in {[a \in Accounts |-> b] : b \in 0..MaxBase}

Next ==
    \/ \E net \in LiveNets, c \in DepositCents, ok \in BOOLEAN, a \in Answers,
          accept \in BOOLEAN :
           deposit_real_usdc(net, c, ok, a, accept)
    \/ \E net \in LiveNets, accept \in BOOLEAN : send_real_deposit(net, accept)
    \/ \E net \in LiveNets, a \in Answers, accept \in BOOLEAN :
           claim_real_rewards(net, a, accept)
    \/ \E net \in Nets, a \in Answers, accept \in BOOLEAN, o \in WaitOutcomes,
          st \in [PendingOf(txs, HackathonAccount) -> Statuses] :
           get_test_usdc_from_faucet(net, a, accept, o, st)
    \/ \E i \in 1..MaxTxs, status \in Statuses : Mine(i, status)

Spec == Init /\ [][Next]_vars

\* the browser with its event loop running: a timer that is due fires
SpecLoop ==
    /\ Spec
    /\ WF_vars(\E net \in LiveNets, accept \in BOOLEAN : send_real_deposit(net, accept))

----------------------------------------------------------------------------
(* The two mint functions: the faucet flow of the browser and contracts.py  *)
(* run as a script, against the same chain                                  *)

\* the browser started while every endpoint answered: its own wallets take
\* no part in the two mint functions
InitMint ==
    /\ BrowserInit([e \in rpc_urls |-> "up"])
    /\ balanceCall = NoBalanceCall
    /\ lastCall = NoCall
    /\ files = NoFiles
    /\ procs = NoProcs
    /\ sentRaw = <<>>
    /\ users = NoUsers
    /\ txs = <<>>
    /\ flows = <<>>
    /\ timers = <<>>
    /\ config \in BOOLEAN
    /\ nonceBase \in {[a \in Accounts |-> b] : b \in 0..MaxBase}

NextMint ==
    \/ \E net \in Nets, a \in Answers, accept \in BOOLEAN, o \in WaitOutcomes,
          st \in [PendingOf(txs, HackathonAccount) -> Statuses] :
           get_test_usdc_from_faucet(net, a, accept, o, st)
    \/ \E net \in Nets, accept \in BOOLEAN, o \in WaitOutcomes,
          st \in [PendingOf(txs, HackathonAccount) -> Statuses] :
           contracts_main(net, accept, o, st)
    \/ \E i \in 1..MaxTxs, status \in Statuses : Mine(i, status)

SpecMint == InitMint /\ [][NextMint]_vars

----------------------------------------------------------------------------
(* A wallet object on its own: built, given keys, asked for balances *)

InitWallet ==
    /\ w3 = [w \in Wallets |-> 0]
    /\ account = [w \in Wallets |-> NoAccount]
    /\ connectLog = [w \in Wallets |-> NoConnect]
    /\ balanceCall = NoBalanceCall
    /\ lastCall = NoCall
    /\ files = NoFiles
    /\ procs = NoProcs
    /\ sentRaw = <<>>
    /\ users = NoUsers
    /\ txs = <<>>
    /\ flows = <<>>
    /\ timers = <<>>
    /\ config = TRUE
    /\ nonceBase = [a \in Accounts |-> 0]

NextWallet ==
    \/ \E h \in BOOLEAN, net \in Nets : NewWallet(DemoWallet, h, net)
    \/ \E net \in LiveNets, holder \in Accounts \cup {NoAccount}, token \in Tokens :
           GetTokenBalance(DemoWallet, net, holder, token)

SpecWallet == InitWallet /\ [][NextWallet]_vars

----------------------------------------------------------------------------
(* A wallet object and its keys: imported, drawn, saved to a file, loaded *)

NextKeys ==
    \/ \E h \in BOOLEAN, net \in StartNets : NewWallet(DemoWallet, h, net)
    \/ \E net \in StartNets, valid \in BOOLEAN : demo_wallet(net, valid)
    \/ \E key \in PrivateKeys : ImportWallet(DemoWallet, key)
    \/ \E valid \in BOOLEAN : CreateNewWallet(DemoWallet, valid)
    \/ \E f \in FileNames, p \in Passwords, writable \in BOOLEAN :
           SaveWallet(DemoWallet, f, p, writable)
    \/ \E f \in FileNames, p \in Passwords, prefixed \in BOOLEAN :
           LoadWallet(DemoWallet, f, p, prefixed)
    \/ \E f \in FileNames : DamageFile(f)
    \/ \E f \in FileNames : RemoveFile(f)

SpecKeys == InitWallet /\ [][NextKeys]_vars

----------------------------------------------------------------------------
(* A wallet object and its transactions: sent, waited for, mined *)

NextTx ==
    \/ \E h \in BOOLEAN, net \in StartNets : NewWallet(DemoWallet, h, net)
    \/ \E net \in CallNets, quote \in GasQuotes, accept \in BOOLEAN :
           CallContract(DemoWallet, net, quote, accept)
    \/ \E net \in CallNets, quote \in GasQuotes, accept \in BOOLEAN :
           SendTransaction(DemoWallet, net, quote, accept)
    \/ \E net \in CallNets, address \in {NoAccount, UserAccount},
          answer \in EthAnswers :
           GetEthBalance(DemoWallet, net, address, answer)
    \/ \E net \in CallNets, h \in 1..MaxTxs, outcome \in WaitOutcomes,
          status \in Statuses :
           WaitForTransaction(DemoWallet, net, h, outcome, status)
    \/ \E i \in 1..MaxTxs, status \in Statuses : Mine(i, status)

SpecTx == InitWallet /\ [][NextTx]_vars

----------------------------------------------------------------------------
(* Two processes calling contracts with the hackathon key, and the chain *)

InitRace ==
    /\ w3 = [w \in Wallets |-> 0]
    /\ account = [w \in Wallets |-> NoAccount]
    /\ connectLog = [w \in Wallets |-> NoConnect]
    /\ balanceCall = NoBalanceCall
    /\ lastCall = NoCall
    /\ files = NoFiles
    /\ procs = NoProcs
    /\ sentRaw = <<>>
    /\ users = NoUsers
    /\ txs = <<>>
    /\ flows = <<>>
    /\ timers = <<>>
    /\ config = TRUE
    /\ nonceBase \in {[a \in Accounts |-> b] : b \in 0..MaxBase}

NextRace ==
    \/ \E p \in Procs, net \in StartNets : ReadNonce(p, net)
    \/ \E p \in Procs, accept \in BOOLEAN : SubmitRaw(p, accept)
    \/ \E i \in 1..MaxTxs, status \in Statuses : Mine(i, status)

SpecRace == InitRace /\ [][NextRace]_vars

----------------------------------------------------------------------------
(* The browser started again and again, and its user files *)

NextUser ==
    \E identity \in Identities, dir \in Dirs, written \in {"whole", "partial"} :
        StartBrowser(identity, dir, written)

SpecUser == InitWallet /\ [][NextUser]_vars

----------------------------------------------------------------------------
(* Properties *)

\* the transactions of account a in the ledger, in the order of submission
TxsOf(a) == SelectSeq(txs, LAMBDA t : t.sender = a)

\* the flows the user starts from a button and confirms in a dialog
UIKinds == {"deposit", "claim", "faucet"}

\* the deposit flows whose second step submitted a transaction
DepositsSent ==
    {f \in 1..Len(flows) : /\ flows[f].kind = "deposit"
                            /\ Len(flows[f].hashes) = 2
                            /\ flows[f].hashes[2] # 0}

\* C1: the transactions call_contract_function submitted for an account
\* carry, in the order of submission, the nonces base, base+1, ...,
\* base+N-1, where base is the account's transaction count before the first
\* of them; no nonce is missing and none is used twice.
NoncesConsecutive ==
    \A a \in Accounts :
        \A k \in 1..Len(TxsOf(a)) : TxsOf(a)[k].nonce = nonceBase[a] + k - 1

\* C1 happens: an account with a history (base 1) has two transactions in
\* the ledger, and the first was still pending when the second was sent
TwoSubmissionsFirstPending ==
    \E a \in Accounts :
        /\ nonceBase[a] = 1
        /\ Len(TxsOf(a)) >= 2
        /\ TxsOf(a)[1].status = "pending"

\* C2: a flow that told the user its transaction succeeded has no
\* transaction with receipt status other than 1: the transaction the report
\* is about was not reverted.
NoSuccessReportOnRevert ==
    \A f \in 1..Len(flows) :
        flows[f].reported = "success" =>
            LET h == flows[f].hashes[Len(flows[f].hashes)]
            IN  h # 0 => txs[h].status # "reverted"

\* C3: the deposit transaction of a flow is submitted only when the approve
\* transaction of the same flow was submitted and has succeeded.
DepositOnlyAfterApproveSucceeded ==
    \A f \in DepositsSent :
        /\ flows[f].hashes[1] # 0
        /\ flows[f].approveSeen = "success"

\* C4: for an entered amount a, the raw amount in the deposit call is the
\* raw amount in the approve call of the same flow, and both are a * 10^6
\* (a is held in hundredths: cents * 10^4).
DepositRawEqualsApproveRaw ==
    \A f \in DepositsSent :
        LET approved == txs[flows[f].hashes[1]].args[2]
            deposited == txs[flows[f].hashes[2]].args[1]
        IN  /\ deposited = approved
            /\ approved = flows[f].cents * 10000

\* C5: mint_test_usdc and mint_usdc_to_user_wallet return the transaction
\* hash exactly when the mint was submitted and the receipt waited for has
\* status 1 (the ledger agrees); in every other case they return None.
MintReturnsHashIffStatus1 ==
    \A f \in 1..Len(flows) :
        flows[f].kind \in {"faucet", "mint_test"} =>
            LET h == flows[f].hashes[1]
            IN  /\ flows[f].ret # 0 <=> (h # 0 /\ flows[f].receipt = "status1")
                /\ flows[f].ret # 0 =>
                       flows[f].ret = h /\ txs[h].status = "success"

\* C5 happens: one mint returned its hash, another was submitted, mined with
\* status 0 and returned None
MintReturnedHashAndNone ==
    \E f, g \in 1..Len(flows) :
        /\ flows[f].kind = "faucet" /\ flows[f].ret # 0
        /\ flows[g].kind = "mint_test" /\ flows[g].hashes[1] # 0
        /\ flows[g].receipt = "status0" /\ flows[g].ret = 0

\* the flows on record were confirmed, and a failed flow has no step left
ConfirmedBeforeSubmit ==
    /\ \A i \in 1..Len(txs) :
           flows[txs[i].flow].kind \in UIKinds => flows[txs[i].flow].answer = "Yes"
    /\ \A f \in 1..Len(flows) :
           flows[f].kind \in UIKinds => flows[f].answer = "Yes"
    /\ \A f \in 1..Len(flows) :
           flows[f].reported = "failure" =>
               /\ \A k \in 1..Len(timers) : timers[k] # f
               /\ flows[f].kind = "deposit" /\ flows[f].hashes[1] = 0
                      => Len(flows[f].hashes) = 1

\* a step adds no transaction to a flow that has reported failure
NothingAfterFailure ==
    \A f \in 1..Len(flows) :
        flows[f].reported = "failure" =>
            \A i \in (Len(txs) + 1)..Len(txs') : txs'[i].flow # f

\* C6: every transaction of a deposit, claim or faucet flow belongs to an
\* invocation whose dialog was answered Yes; a deposit flow whose approve
\* failed has no deposit step waiting and attempted none; and a flow that has
\* reported failure gets no further transaction.
NoSubmitWithoutYes == []ConfirmedBeforeSubmit /\ [][NothingAfterFailure]_vars

\* C6 happens: a confirmed flow submitted a transaction, and a deposit flow
\* failed at its approve step
ConfirmedFlowAndFailedApprove ==
    \E f, g \in 1..Len(flows) :
        /\ flows[f].answer = "Yes" /\ flows[f].hashes[1] # 0
        /\ flows[g].kind = "deposit" /\ flows[g].reported = "failure"
        /\ flows[g].hashes = <<0>>

\* C7: connect_to_network probes the endpoints in the listed order and the
\* first one whose probe succeeds becomes the provider: it returns True
\* exactly when some endpoint answers, self.w3 is then the first such
\* endpoint, and the endpoints probed are 1, 2, ..., up to that one.
FirstReachableEndpointWins ==
    \A w \in Wallets :
        connectLog[w].called =>
            LET log == connectLog[w]
                ups == {e \in rpc_urls : Reachable(log.net[e])}
            IN  /\ log.ret <=> ups # {}
                /\ log.ret =>
                       /\ w3[w] \in ups
                       /\ \A e \in ups : w3[w] <= e
                       /\ log.probed = [i \in 1..w3[w] |-> <<i, log.net[i]>>]

\* C7 happens: a wallet was built while the first endpoint failed and the
\* second and the third answered
BuiltOverSecondEndpoint ==
    \E w \in Wallets :
        /\ connectLog[w].called
        /\ ~Reachable(connectLog[w].net[1])
        /\ Reachable(connectLog[w].net[2])
        /\ Reachable(connectLog[w].net[3])
        /\ w3[w] = 2

\* the networks in which no endpoint answers
DeadNets == {net \in Nets : \A e \in rpc_urls : ~Reachable(net[e])}

BalanceIsRawOverDecimals ==
    (/\ balanceCall.called /\ balanceCall.connected
     /\ balanceCall.account # NoAccount /\ balanceCall.token.fail = "none") =>
        LET a == IF balanceCall.holder # NoAccount
                 THEN balanceCall.holder ELSE balanceCall.account
            raw == balanceCall.token.balanceOf[a]
            d == balanceCall.token.decimals
            r == balanceCall.ret
        IN  /\ balanceCall.asked = a
            /\ r.scale <= d
            /\ (r.whole * 10^r.scale + r.frac) * 10^(d - r.scale) = raw
            /\ raw = 100000000 /\ d = 6 => r = [whole |-> 100, frac |-> 0, scale |-> 0]
            /\ raw = 250000000 /\ d = 6 => r = [whole |-> 250, frac |-> 0, scale |-> 0]

\* C9 happens: the wallet's own balance of 250000000 units was read from a
\* token of 8 decimals, and 2.5 came back
BalanceReadWithEightDecimals ==
    /\ balanceCall.called /\ balanceCall.connected
    /\ balanceCall.holder = NoAccount
    /\ balanceCall.account = HackathonAccount
    /\ balanceCall.token.fail = "none"
    /\ balanceCall.token.decimals = 8
    /\ balanceCall.ret = [whole |-> 2, frac |-> 5, scale |-> 1]

\* the last get_token_balance ran disconnected or met a failing view call
BalanceCallFailed ==
    /\ balanceCall.called
    /\ ~balanceCall.connected \/ balanceCall.token.fail # "none"

ZeroOnFailure ==
    BalanceCallFailed => balanceCall.ret = ZeroBalance /\ ~balanceCall.raised

WalletKeptOnFailure ==
    (balanceCall' # balanceCall /\ BalanceCallFailed') => UNCHANGED walletVars

\* C10: when the wallet is not connected or a view call fails,
\* get_token_balance returns 0, raises nothing, and leaves the wallet as it
\* was.
BalanceFailsToZero == []ZeroOnFailure /\ [][WalletKeptOnFailure]_vars

\* C10 happens: a connected wallet with an account asked a token whose
\* balanceOf raises
BalanceAskedOfFailingToken ==
    /\ balanceCall.called
    /\ balanceCall.connected
    /\ balanceCall.account # NoAccount
    /\ balanceCall.token.fail = "balanceOf"

\* the last call was import_wallet, of a key that is 64 hexadecimal
\* characters once an optional '0x' is removed
ImportedWellFormed ==
    /\ lastCall.fn = "import_wallet"
    /\ StrippedLen(lastCall.key) = 64
    /\ lastCall.key.isHex

\* C11 as stated: import_wallet returns True, and sets the account, exactly
\* for the inputs that are 64 hexadecimal characters after an optional '0x'.
ImportAcceptsEvery64Hex ==
    lastCall.fn = "import_wallet" =>
        /\ lastCall.ret <=> ImportedWellFormed
        /\ lastCall.ret => account[lastCall.wallet] = lastCall.key.owner

\* C11: import_wallet returns False, and keeps the account it held, for every
\* input that is not 64 hexadecimal characters after an optional '0x'; for
\* one that is, it returns True and sets the account when the number written
\* is a private key of the curve, and returns False, keeping the account,
\* when it is not.
ImportAccepts64HexKeys ==
    lastCall.fn = "import_wallet" =>
        /\ lastCall.ret <=> (ImportedWellFormed /\ lastCall.key.inRange)
        /\ lastCall.ret => account[lastCall.wallet] = lastCall.key.owner
        /\ ~lastCall.ret => account[lastCall.wallet] = lastCall.before

\* C11 happens: a wallet that held the hackathon key imported the user's key,
\* 64 hexadecimal characters without prefix
ImportedUserKeyOverHackathonKey ==
    /\ lastCall.fn = "import_wallet"
    /\ lastCall.before = HackathonAccount
    /\ lastCall.key = user_private_key
    /\ lastCall.ret
    /\ account[lastCall.wallet] = UserAccount

\* the last call was load_wallet_from_file, of a file that holds what
\* save_wallet_to_file wrote under the passphrase now given
LoadedWhatWasSaved ==
    /\ lastCall.fn = "load_wallet_from_file"
    /\ lastCall.content.kind = "keystore"
    /\ lastCall.content.password = lastCall.password

\* C12: once an account is set, save_wallet_to_file(f, p) followed by
\* load_wallet_from_file(f, p) with the same passphrase returns True and
\* leaves the wallet with the account that was saved.
LoadAfterSaveRestores ==
    LoadedWhatWasSaved =>
        /\ lastCall.ret
        /\ ~lastCall.raised
        /\ account[lastCall.wallet] = lastCall.content.owner

\* C12 happens: the account create_new_wallet drew was saved, the wallet then
\* took another key, and the load brought the saved account back
LoadedCreatedAccountBack ==
    /\ LoadedWhatWasSaved
    /\ lastCall.content.owner = CreatedAccount
    /\ lastCall.before = UserAccount
    /\ account[lastCall.wallet] = CreatedAccount

\* the last call was load_wallet_from_file, of a missing file, a corrupt one,
\* or with another passphrase than the file was saved under
LoadedUnreadable ==
    /\ lastCall.fn = "load_wallet_from_file"
    /\ \/ lastCall.content.kind = "absent"
       \/ lastCall.content.kind = "corrupt"
       \/ /\ lastCall.content.kind = "keystore"
          /\ lastCall.content.password # lastCall.password

\* C13: load_wallet_from_file with a wrong passphrase, a corrupt file or a
\* missing file returns False without raising and leaves the account as it
\* was.
LoadFailureKeepsAccount ==
    LoadedUnreadable =>
        /\ ~lastCall.ret
        /\ ~lastCall.raised
        /\ account[lastCall.wallet] = lastCall.before

\* C13 happens: a wallet holding the user's key was asked to load the
\* hackathon account's keystore with the wrong passphrase
LoadRefusedWrongPassphrase ==
    /\ LoadedUnreadable
    /\ lastCall.content.kind = "keystore"
    /\ lastCall.content.owner = HackathonAccount
    /\ lastCall.before = UserAccount
    /\ account[lastCall.wallet] = UserAccount

\* C14: the result of wait_for_transaction for a wait that timed out (None)
\* always differs from its result for a transaction that was mined and
\* failed (a receipt, with status 0).
WaitTellsTimeoutFromFailure ==
    (lastCall.fn = "wait_for_transaction" /\ lastCall.connected) =>
        /\ lastCall.outcome = "timeout" => lastCall.ret = NoReceipt
        /\ lastCall.outcome = "status0" => lastCall.ret # NoReceipt

\* C14 happens: a connected wallet waited for a transaction that was mined
\* with status 0
WaitedForRevertedTransaction ==
    /\ lastCall.fn = "wait_for_transaction"
    /\ lastCall.connected
    /\ lastCall.outcome = "status0"
    /\ txs[lastCall.hash].status = "reverted"
    /\ lastCall.ret = "status0"

\* the last call was one of the two methods that submit a transaction
SubmitCalled == lastCall.fn \in {"call_contract_function", "send_transaction"}

\* C16: when the wallet is not connected or holds no account,
\* call_contract_function and send_transaction submit nothing, return no
\* hash, and leave the account and the connection as they were.
NothingSentWhenUnready ==
    (SubmitCalled /\ (~lastCall.connected \/ lastCall.before = NoAccount)) =>
        /\ lastCall.sent = 0
        /\ lastCall.hash = 0
        /\ lastCall.after = lastCall.ledger
        /\ account[lastCall.wallet] = lastCall.before
        /\ w3[lastCall.wallet] = lastCall.w3

\* C16 happens: a wallet holding the hackathon key was asked to call a
\* contract while no endpoint answered
CalledWhileDisconnected ==
    /\ lastCall.fn = "call_contract_function"
    /\ ~lastCall.connected
    /\ lastCall.before = HackathonAccount
    /\ lastCall.w3 # 0
    /\ lastCall.hash = 0

\* the node refused the transaction the last call sent
Refused ==
    /\ SubmitCalled
    /\ lastCall.sent > 0
    /\ \/ ~lastCall.accept
       \/ ~NodeAccepts(lastCall.ledger, lastCall.before, lastCall.tx.nonce)

\* C17: one invocation of call_contract_function or send_transaction sends
\* at most one raw transaction; when the node refuses it, failure is
\* returned and nothing is submitted again.
AtMostOneSubmission ==
    SubmitCalled =>
        /\ lastCall.sent <= 1
        /\ Len(lastCall.after) <= Len(lastCall.ledger) + 1
        /\ Refused => (lastCall.hash = 0 /\ lastCall.after = lastCall.ledger)

\* C17 happens: the node refused the transaction of a contract call
ContractCallRefused ==
    /\ lastCall.fn = "call_contract_function"
    /\ Refused
    /\ lastCall.sent = 1
    /\ lastCall.hash = 0

\* C18 as stated: every transaction the wallet submits, contract call or
\* plain transfer, takes as nonce the account's pending count, so one issued
\* while an earlier one is unconfirmed gets a strictly greater nonce.
NonceIsPendingCount ==
    (SubmitCalled /\ lastCall.sent > 0) =>
        /\ lastCall.tx.nonce = PendingCount(lastCall.ledger, lastCall.before)
        /\ \A i \in 1..Len(lastCall.ledger) :
              (/\ lastCall.ledger[i].sender = lastCall.before
               /\ lastCall.ledger[i].status = "pending")
              => lastCall.tx.nonce > lastCall.ledger[i].nonce

\* floor(1.2 * n) = floor(6 * n / 5), exactly
SixFifthsFloor(n) == QuotBits(MulBits(n, 6), 5)

\* the smallest quote whose buffered price is not floor(1.2 * quote)
FirstInexactQuote == Wei(3752999, 689475414)

\* the last call was a contract call that built its transaction
ContractTxBuilt == lastCall.fn = "call_contract_function" /\ lastCall.sent > 0

\* C19 as stated: every contract-call transaction carries
\* gasPrice = floor(1.2 * quote), which is at least the quote.
GasPriceIsFloorOfSixFifths ==
    ContractTxBuilt =>
        /\ lastCall.tx.gasPrice = SixFifthsFloor(lastCall.quote)
        /\ ~LessBits(lastCall.tx.gasPrice, lastCall.quote)

\* C19: every contract-call transaction carries gasPrice = int(quote * 1.2)
\* in float arithmetic, which is at least the quote, and is
\* floor(1.2 * quote) for every quote below 3752999689475414 wei.
GasPriceIsBuffered ==
    ContractTxBuilt =>
        /\ ~LessBits(lastCall.tx.gasPrice, lastCall.quote)
        /\ LessBits(lastCall.quote, FirstInexactQuote)
              => lastCall.tx.gasPrice = SixFifthsFloor(lastCall.quote)

\* C19 happens: a contract call was sent at a quote of 25 gwei, with a gas
\* price of 30 gwei
SentAtThirtyGwei ==
    /\ ContractTxBuilt
    /\ lastCall.quote = Wei(25, 0)
    /\ lastCall.tx.gasPrice = Wei(30, 0)
    /\ lastCall.hash # 0

\* the mint flows whose wait for the submitted mint timed out: a hash came
\* back, so the wallet was connected, and the wait returned no receipt
TimedOutMints ==
    {f \in 1..Len(flows) : /\ flows[f].kind \in {"faucet", "mint_test"}
                           /\ flows[f].hashes[1] # 0
                           /\ flows[f].receipt = NoReceipt}

\* C15 as stated: when the wait for a submitted mint times out, the callers
\* treat the outcome as unknown; a timeout is never reported to the user as
\* a failed mint.
TimeoutNeverReportedAsFailure ==
    \A f \in TimedOutMints : flows[f].reported # "failure"

\* C20 as stated: when two flows of the same account execute
\* call_contract_function concurrently, their nonce reads and submissions
\* interleaved, the transactions still carry distinct nonces, increasing in
\* the order of submission: a transaction submitted after one the node
\* accepted has a greater nonce.
RacingNoncesIncrease ==
    \A i, j \in 1..Len(sentRaw) :
        (i < j /\ sentRaw[i].sender = sentRaw[j].sender /\ sentRaw[i].accepted)
        => sentRaw[i].nonce < sentRaw[j].nonce

\* C21 as stated: once a wallet object holds an account, no later operation
\* on that object changes the account for the rest of the process.
AccountNeverReplaced ==
    [][\A w \in Wallets : account[w] # NoAccount => account'[w] = account[w]]_vars

\* C22: the wallet's chain_id is 11155111 from construction on, and every
\* transaction send_transaction or call_contract_function builds carries
\* chainId 11155111.
EveryTransactionOnSepolia ==
    /\ chain_id = 11155111
    /\ \A i \in 1..Len(txs) : txs[i].chainId = 11155111
    /\ (SubmitCalled /\ lastCall.sent > 0) => lastCall.tx.chainId = 11155111

\* C22 happens: the node accepted a transfer built by send_transaction
TransferAccepted ==
    /\ lastCall.fn = "send_transaction"
    /\ lastCall.hash # 0
    /\ lastCall.tx.gas = 21000
    /\ txs[lastCall.hash].chainId = 11155111

\* C23 as stated: get_eth_balance reports a transport failure of the balance
\* query to its caller as an error that can be told from a balance of zero,
\* and does not return 0.
EthBalanceFailureIsTold ==
    (/\ lastCall.fn = "get_eth_balance"
     /\ lastCall.asked
     /\ lastCall.answer.kind = "error")
    => (lastCall.raised \/ lastCall.ret # ZeroBalance)

\* C24 as stated: no output written by the wallet code contains the private
\* key or any part of it.
NoKeyInOutput ==
    lastCall.fn = "demo_wallet" =>
        \A line \in lastCall.printed :
            line.field = "private_key" => line.chars = 0

\* the deposit flows, and how many deposit submissions a flow has attempted
\* or has waiting on a timer
DepositFlows == {f \in 1..Len(flows) : flows[f].kind = "deposit"}
DepositAttempts(f) == IF f \in 1..Len(flows) THEN Len(flows[f].hashes) - 1 ELSE 0
DepositsScheduled(f) == Cardinality({k \in 1..Len(timers) : timers[k] = f})

\* what holds of the deposit flows at every moment: without an approve hash
\* no deposit is scheduled or attempted; with one, exactly one deposit is
\* scheduled or attempted, and a deposit the node accepted stands behind the
\* approve in the ledger
OneDepositBehindApprove ==
    \A f \in DepositFlows :
        /\ flows[f].hashes[1] = 0
              => (DepositAttempts(f) = 0 /\ DepositsScheduled(f) = 0)
        /\ flows[f].hashes[1] # 0
              => /\ DepositAttempts(f) + DepositsScheduled(f) = 1
                 /\ DepositAttempts(f) = 1 /\ flows[f].hashes[2] # 0
                       => flows[f].hashes[2] > flows[f].hashes[1]

\* C25: in deposit_real_usdc, when the approve submission returns no hash,
\* no deposit is scheduled or submitted in that flow; when it returns a
\* hash, exactly one deposit submission is attempted for the flow, after
\* the approve submission (the attempt is made once the timer fires, which
\* it does as long as the ledger of the model has room).
ApproveThenOneDeposit ==
    /\ []OneDepositBehindApprove
    /\ \A f \in 1..MaxFlows :
          [](f \in DepositFlows /\ DepositsScheduled(f) = 1
                => <>(DepositAttempts(f) = 1 \/ Len(txs) >= MaxTxs))

\* C25 happens: a deposit flow whose approve was accepted has made its one
\* deposit submission, which the node accepted, and no timer is left
DepositSubmittedAfterApprove ==
    \E f \in DepositFlows :
        /\ flows[f].hashes[1] # 0
        /\ DepositAttempts(f) = 1
        /\ flows[f].hashes[2] > flows[f].hashes[1]
        /\ DepositsScheduled(f) = 0

\* a step that is a call of import_wallet
ImportStep == lastCall'.fn = "import_wallet" /\ lastCall' # lastCall

\* C26: an import_wallet that fails (wrong length, characters that are not
\* hexadecimal, or a key the signing library refuses) leaves the account
\* held before unchanged; the held account is replaced only by an import
\* that succeeds, and then by the account of the key given.
FailedImportKeepsAccount ==
    [][ImportStep =>
          /\ ~lastCall'.ret => account' = account
          /\ account' # account =>
                /\ lastCall'.ret
                /\ account'[lastCall'.wallet] = lastCall'.key.owner
                /\ \A w \in Wallets \ {lastCall'.wallet} : account'[w] = account[w]]_vars

\* C26 happens: a wallet holding the hackathon account was given 64
\* hexadecimal characters the signing library refuses, and kept its account
RefusedKeyKeptHackathonAccount ==
    /\ lastCall.fn = "import_wallet"
    /\ StrippedLen(lastCall.key) = 64
    /\ lastCall.key.isHex
    /\ ~lastCall.key.inRange
    /\ ~lastCall.ret
    /\ lastCall.before = HackathonAccount
    /\ account[lastCall.wallet] = HackathonAccount

\* the nonces of the transactions the node accepted from an account have no
\* gap: every number from the account's first count up to a nonce in the
\* ledger is the nonce of a transaction in the ledger
AcceptedNoncesGapFree ==
    \A i \in 1..Len(txs) :
        \A n \in nonceBase[txs[i].sender]..txs[i].nonce :
            \E j \in 1..Len(txs) : /\ txs[j].sender = txs[i].sender
                                    /\ txs[j].nonce = n

\* C27: when the node refuses the submission of a contract call, the next
\* call_contract_function of the same account uses the nonce of the refused
\* one, so the nonces of accepted transactions stay free of gaps whatever
\* the mix of accepted and refused submissions.
RefusedNonceUsedAgain ==
    /\ AcceptedNoncesGapFree
    /\ (lastCall.fn = "call_contract_function" /\ lastCall.follows.refused)
          => lastCall.tx.nonce = lastCall.follows.nonce

\* C27 happens: after one accepted transaction the node refused a contract
\* call with nonce 1, and the call after it was sent with nonce 1 again and
\* accepted
AcceptedWithRefusedNonce ==
    /\ lastCall.fn = "call_contract_function"
    /\ lastCall.follows.refused
    /\ lastCall.follows.nonce = 1
    /\ lastCall.hash # 0
    /\ txs[lastCall.hash].nonce = 1

\* the transactions the faucet flows of the browser submitted
FaucetTxs ==
    {i \in 1..Len(txs) : /\ txs[i].flow \in 1..Len(flows)
                         /\ flows[txs[i].flow].kind = "faucet"}

\* C28: the mint transaction of the faucet flow is signed by the contracts
\* (hackathon) wallet and names the browsing user's address as recipient,
\* with the raw amount 100 * 10^6; it does not mint to the signing wallet's
\* own address.
FaucetMintsToUser ==
    \A i \in FaucetTxs :
        /\ txs[i].fn = "mint"
        /\ txs[i].sender = HackathonAccount
        /\ txs[i].args = <<UserAccount, 100 * 10^6>>
        /\ txs[i].args[1] # txs[i].sender

\* C28 happens: a faucet flow's mint was accepted and mined with status 1
FaucetMintMined ==
    \E i \in FaucetTxs :
        /\ txs[i].status = "success"
        /\ flows[txs[i].flow].reported = "success"

\* the starts of the browser that got a user record back
Returned == {k \in 1..Len(users.started) : ~users.started[k].raised}

\* C29 as stated: create_or_load_user is idempotent per device: when the
\* device's user file exists it returns the stored record and writes
\* nothing, only when the file is absent does it draw a key and write the
\* file, and so repeated starts on one device always yield the same
\* user_id, wallet_address and private_key.
SameUserOnEveryStart ==
    /\ \A k \in 1..Len(users.started) :
          users.started[k].wrote <=> ~users.started[k].existed
    /\ \A k \in Returned, m \in Returned :
          users.started[k].identity = users.started[m].identity
          => users.started[k].user_data = users.started[m].user_data

\* C30: get_token_balance on a wallet that holds no account returns 0.0
\* without asking the token, also when a holder address is given and the
\* node is reachable.
NoAccountNoBalance ==
    balanceCall.called /\ balanceCall.account = NoAccount =>
        /\ balanceCall.ret = ZeroBalance
        /\ balanceCall.asked = NoAccount
        /\ ~balanceCall.raised

\* C30 happens: a connected wallet without an account was asked for the
\* balance of a given holder, who has tokens in a token whose calls answer
HolderAskedWithoutAccount ==
    /\ balanceCall.called
    /\ balanceCall.connected
    /\ balanceCall.account = NoAccount
    /\ balanceCall.holder # NoAccount
    /\ balanceCall.token.fail = "none"
    /\ TrueDiv(balanceCall.token.balanceOf[balanceCall.holder],
               balanceCall.token.decimals) # ZeroBalance

====
